---- MODULE Spec2Model ----
(***************************************************************************)
(* Model of drake's systems/framework/event_collection.h: the homogeneous  *)
(* event collections (LeafEventCollection, DiagramEventCollection) and the *)
(* heterogeneous bundles (CompositeEventCollection and its Leaf and        *)
(* Diagram variants), as objects on a heap, driven by a caller that makes  *)
(* one call at a time and sees its outcome (normal return, a C++           *)
(* exception, a DRAKE_DEMAND abort, or undefined behaviour).               *)
(***************************************************************************)
EXTENDS Integers, Sequences, FiniteSets, TLC

VARIABLES
  colls,    \* heap of EventCollection objects: id (1..Len) -> object
  bundles,  \* heap of CompositeEventCollection objects: id -> object
  pre,      \* colls as they were when the call recorded in `last` was made
  last      \* the call just made and its outcome; op = "idle" between calls

vars == <<colls, bundles, pre, last>>

-----------------------------------------------------------------------------
(* Bounds of the model. *)

\* The caller goes on making calls while the heap holds at most this many
\* Event objects.
MaxEvents == 3

-----------------------------------------------------------------------------
(* Values. *)

\* nullptr, for collection pointers and for event addresses.
Null == 0

Kinds == {"publish", "discrete_update", "unrestricted_update"}

\* A null std::unique_ptr<EventType>.
NullEvent == [addr |-> Null, trigger_type |-> "none", callback |-> 0]

\* The events a producer hands in (a trigger type and a callback), before
\* they are given an address: those of the example in the documentation of
\* EventCollection, event1 and event3 (publish), event2 (discrete update)
\* and event4 (unrestricted update).
EventInputs(kind) ==
  CASE kind = "publish" ->
         { [trigger_type |-> "kPeriodic", callback |-> 1],
           [trigger_type |-> "kPerStep", callback |-> 3] }
    [] kind = "discrete_update" ->
         { [trigger_type |-> "kPeriodic", callback |-> 2] }
    [] kind = "unrestricted_update" ->
         { [trigger_type |-> "kPerStep", callback |-> 4] }

\* What undefined behaviour does in a given run: the call goes on as if
\* nothing had happened, or the process crashes.
UBOutcomes == {"runs", "crash"}

\* Outcomes of a call after which the process is gone.
Fatal == {"abort", "ub"}

Ok(cs) == [h |-> cs, exc |-> "none"]
Throw(cs, e) == [h |-> cs, exc |-> e]

RECURSIVE SeqSum(_)
SeqSum(s) == IF s = <<>> THEN 0 ELSE Head(s) + SeqSum(Tail(s))

-----------------------------------------------------------------------------
(* Events on the heap. *)

\* The collections that own events.
Owners(cs) == { c \in 1..Len(cs) : cs[c].owned_events_ # <<>> }

\* The Event objects alive: those some leaf collection owns.
LiveEvents(cs) ==
  UNION { { cs[c].owned_events_[i] : i \in 1..Len(cs[c].owned_events_) }
          : c \in Owners(cs) }

LiveAddrs(cs) == { e.addr : e \in LiveEvents(cs) }

NumEvents(cs) == SeqSum([c \in 1..Len(cs) |-> Len(cs[c].owned_events_)])

\* The allocator: the lowest address no live event holds.
RECURSIVE LowestFree(_, _)
LowestFree(live, a) == IF a \in live THEN LowestFree(live, a + 1) ELSE a

NewAddr(cs) == LowestFree(LiveAddrs(cs), 1)

\* std::make_unique<EventType>(...) by a producer.
MakeEvent(cs, v) ==
  [addr |-> NewAddr(cs), trigger_type |-> v.trigger_type, callback |-> v.callback]

\* *p for an event pointer p: the live event at that address; NullEvent
\* stands for a pointer to no live event.
Deref(cs, p) ==
  IF p \in LiveAddrs(cs)
    THEN CHOOSE e \in LiveEvents(cs) : e.addr = p
    ELSE NullEvent

\* *p for entry i of the events_ of collection c, which as a rule points to
\* entry i of its owned_events_.
DerefEntry(cs, c, i) ==
  IF i <= Len(cs[c].owned_events_) /\ cs[c].owned_events_[i].addr = cs[c].events_[i]
    THEN cs[c].owned_events_[i]
    ELSE Deref(cs, cs[c].events_[i])

\* Event::Clone(): an independent copy with the same trigger type and
\* callback, at a new address.
Clone(cs, e) ==
  [addr |-> NewAddr(cs), trigger_type |-> e.trigger_type, callback |-> e.callback]

-----------------------------------------------------------------------------
(* Constructors of the homogeneous collections. *)

EmptyVec(n) == [i \in 1..n |-> Null]

\* LeafEventCollection(): both vectors empty.
LeafEventCollection(kind) ==
  [type |-> "leaf", kind |-> kind,
   owned_events_ |-> <<>>, events_ |-> <<>>,
   subevent_collection_ |-> <<>>, owned_subevent_collection_ |-> <<>>]

\* DiagramEventCollection(num_subsystems): both vectors sized, every slot
\* a null pointer.
DiagramEventCollection(kind, num_subsystems) ==
  [type |-> "diagram", kind |-> kind,
   owned_events_ |-> <<>>, events_ |-> <<>>,
   subevent_collection_ |-> EmptyVec(num_subsystems),
   owned_subevent_collection_ |-> EmptyVec(num_subsystems)]

\* What is left of a collection that has been destroyed.
Destroyed(kind) ==
  [type |-> "destroyed", kind |-> kind,
   owned_events_ |-> <<>>, events_ |-> <<>>,
   subevent_collection_ |-> <<>>, owned_subevent_collection_ |-> <<>>]

\* operator new: the object gets the next id of the heap.
Alloc(cs, obj) == Append(cs, obj)
NewId(cs) == Len(cs) + 1

num_subsystems(cs, d) == Len(cs[d].subevent_collection_)

-----------------------------------------------------------------------------
(* LeafEventCollection. *)

get_events(cs, c) == cs[c].events_

\* add_event inserting at the front of both vectors instead of the back.
LeafAddEvent_AtFront(cs, c, event) ==
  IF event.addr = Null
    THEN Throw(cs, "abort")
    ELSE Ok([cs EXCEPT ![c].owned_events_ = <<event>> \o @,
                       ![c].events_ = <<event.addr>> \o @])

\* add_event: DRAKE_DEMAND(event != nullptr); push the owner, then push a
\* pointer to owned_events_.back().
LeafAddEvent(cs, c, event) ==
  IF event.addr = Null
    THEN Throw(cs, "abort")
    ELSE LET owned == Append(cs[c].owned_events_, event)
         IN Ok([cs EXCEPT ![c].owned_events_ = owned,
                          ![c].events_ = Append(@, owned[Len(owned)].addr)])

LeafHasEvents(cs, c) == cs[c].events_ # <<>>

\* Clear destroying the owned events and keeping the pointers to them.
LeafClear_OwnedOnly(cs, c) ==
  Ok([cs EXCEPT ![c].owned_events_ = <<>>])

\* LeafEventCollection::Clear: owned_events_.clear(); events_.clear().
LeafClear(cs, c) ==
  Ok([cs EXCEPT ![c].owned_events_ = <<>>, ![c].events_ = <<>>])

\* The loop adding other's own Event objects, uncloned.
RECURSIVE LeafAppendClones_Shared(_, _, _, _)
LeafAppendClones_Shared(cs, c, other, i) ==
  IF i > Len(get_events(cs, other))
    THEN Ok(cs)
    ELSE LET r == LeafAddEvent(cs, c, DerefEntry(cs, other, i))
         IN IF r.exc # "none" THEN r
            ELSE LeafAppendClones_Shared(r.h, c, other, i + 1)

\* The loop taking other's events last to first.
RECURSIVE LeafAppendClones_Backwards(_, _, _, _)
LeafAppendClones_Backwards(cs, c, other, i) ==
  IF i > Len(get_events(cs, other))
    THEN Ok(cs)
    ELSE LET n == Len(get_events(cs, other))
             r == LeafAddEvent(cs, c, Clone(cs, DerefEntry(cs, other, n - i + 1)))
         IN IF r.exc # "none" THEN r
            ELSE IF i = n THEN Ok(r.h)
            ELSE LeafAppendClones_Backwards(r.h, c, other, i + 1)

\* The loop of DoAddToEnd over other.get_events(), when other is another
\* object than this: entry i of n, each cloned and added to this.
RECURSIVE LeafAppendClones(_, _, _, _)
LeafAppendClones(cs, c, other, i) ==
  IF i > Len(get_events(cs, other))
    THEN Ok(cs)
    ELSE LET e == DerefEntry(cs, other, i)
         IN IF e.addr = Null
              THEN Throw(cs, "ub")
              ELSE LET r == LeafAddEvent(cs, c, Clone(cs, e))
                   IN IF r.exc # "none" THEN r
                      ELSE LeafAppendClones(r.h, c, other, i + 1)

\* The same loop when other is this: the range-for runs over the vector
\* events_ that add_event pushes to, which invalidates its iterators. Either
\* the n entries present at the start are still read and cloned, or the
\* process crashes on the first one.
RECURSIVE LeafAppendOwnClones(_, _, _, _)
LeafAppendOwnClones(cs, c, i, n) ==
  IF i > n
    THEN Ok(cs)
    ELSE LET r == LeafAddEvent(cs, c, Clone(cs, DerefEntry(cs, c, i)))
         IN IF r.exc # "none" THEN r ELSE LeafAppendOwnClones(r.h, c, i + 1, n)

\* DoAddToEnd that takes the events of any collection, with no cast.
LeafDoAddToEnd_AnyOther(cs, c, other, ub) ==
  IF other # c
    THEN LeafAppendClones(cs, c, other, 1)
    ELSE IF get_events(cs, c) = <<>>
      THEN Ok(cs)
      ELSE IF ub = "crash"
        THEN Throw(cs, "ub")
        ELSE LeafAppendOwnClones(cs, c, 1, Len(get_events(cs, c)))

\* LeafEventCollection::DoAddToEnd: dynamic_cast of other to a leaf
\* collection (std::bad_cast), then the loop.
LeafDoAddToEnd(cs, c, other, ub) ==
  IF cs[other].type # "leaf"
    THEN Throw(cs, "bad_cast")
    ELSE IF other # c
      THEN LeafAppendClones(cs, c, other, 1)
      ELSE IF get_events(cs, c) = <<>>
        THEN Ok(cs)
        ELSE IF ub = "crash"
          THEN Throw(cs, "ub")
          ELSE LeafAppendOwnClones(cs, c, 1, Len(get_events(cs, c)))

-----------------------------------------------------------------------------
(* The virtual calls of EventCollection, dispatched on the object's type,  *)
(* with DiagramEventCollection's loops over subevent_collection_.  A call  *)
(* through a null slot, or on a destroyed collection, is undefined.        *)

RECURSIVE Clear(_, _), DiagramClear(_, _, _)
Clear(cs, c) ==
  IF cs[c].type = "leaf" THEN LeafClear(cs, c)
  ELSE IF cs[c].type = "diagram" THEN DiagramClear(cs, c, 1)
  ELSE Throw(cs, "ub")

\* Clear that returns after the first child.
DiagramClear_FirstChild(cs, c, i) ==
  IF i > num_subsystems(cs, c)
    THEN Ok(cs)
    ELSE LET subevent == cs[c].subevent_collection_[i]
         IN IF subevent = Null THEN Throw(cs, "ub") ELSE Clear(cs, subevent)

DiagramClear(cs, c, i) ==
  IF i > num_subsystems(cs, c)
    THEN Ok(cs)
    ELSE LET subevent == cs[c].subevent_collection_[i]
         IN IF subevent = Null
              THEN Throw(cs, "ub")
              ELSE LET r == Clear(cs, subevent)
                   IN IF r.exc # "none" THEN r ELSE DiagramClear(r.h, c, i + 1)

\* HasEvents returns [ret, exc]: the value, or the undefined behaviour met
\* before one was returned.
RECURSIVE HasEvents(_, _), DiagramHasEvents(_, _, _)
HasEvents(cs, c) ==
  IF cs[c].type = "leaf" THEN [ret |-> LeafHasEvents(cs, c), exc |-> "none"]
  ELSE IF cs[c].type = "diagram" THEN DiagramHasEvents(cs, c, 1)
  ELSE [ret |-> FALSE, exc |-> "ub"]

\* HasEvents that answers for the first child alone.
DiagramHasEvents_FirstChild(cs, c, i) ==
  IF i > num_subsystems(cs, c)
    THEN [ret |-> FALSE, exc |-> "none"]
    ELSE LET subevent == cs[c].subevent_collection_[i]
         IN IF subevent = Null
              THEN [ret |-> FALSE, exc |-> "ub"]
              ELSE HasEvents(cs, subevent)

DiagramHasEvents(cs, c, i) ==
  IF i > num_subsystems(cs, c)
    THEN [ret |-> FALSE, exc |-> "none"]
    ELSE LET subevent == cs[c].subevent_collection_[i]
         IN IF subevent = Null
              THEN [ret |-> FALSE, exc |-> "ub"]
              ELSE LET r == HasEvents(cs, subevent)
                   IN IF r.exc # "none" \/ r.ret THEN r
                      ELSE DiagramHasEvents(cs, c, i + 1)

\* add_event that drops the event and returns.
DiagramAddEvent_Ignored(cs, c, event) == Ok(cs)

\* DiagramEventCollection::add_event throws std::logic_error, whatever the
\* argument.
DiagramAddEvent(cs, c, event) == Throw(cs, "logic_error")

add_event(cs, c, event) ==
  IF cs[c].type = "leaf" THEN LeafAddEvent(cs, c, event)
  ELSE IF cs[c].type = "diagram" THEN DiagramAddEvent(cs, c, event)
  ELSE Throw(cs, "ub")

\* DoAddToEnd. For a diagram: dynamic_cast of other to a diagram collection
\* (std::bad_cast), DRAKE_DEMAND of equal num_subsystems (abort), then
\* child i of this takes child i of other, in order, stopping at the first
\* failure.
RECURSIVE DoAddToEnd(_, _, _, _), DiagramDoAddToEndFrom(_, _, _, _, _)
\* DoAddToEnd throwing std::bad_cast where the numbers of children differ.
DiagramDoAddToEnd_Throwing(cs, c, other, ub) ==
  IF cs[other].type = "destroyed" THEN Throw(cs, "ub")
  ELSE IF cs[other].type # "diagram" THEN Throw(cs, "bad_cast")
  ELSE IF num_subsystems(cs, c) # num_subsystems(cs, other)
    THEN Throw(cs, "bad_cast")
  ELSE DiagramDoAddToEndFrom(cs, c, other, ub, 1)

DiagramDoAddToEnd(cs, c, other, ub) ==
  IF cs[other].type = "destroyed" THEN Throw(cs, "ub")
  ELSE IF cs[other].type # "diagram" THEN Throw(cs, "bad_cast")
  ELSE IF num_subsystems(cs, c) # num_subsystems(cs, other) THEN Throw(cs, "abort")
  ELSE DiagramDoAddToEndFrom(cs, c, other, ub, 1)

DiagramDoAddToEndFrom(cs, c, other, ub, i) ==
  IF i > num_subsystems(cs, c)
    THEN Ok(cs)
    ELSE LET mine == cs[c].subevent_collection_[i]
             theirs == cs[other].subevent_collection_[i]
         IN IF mine = Null \/ theirs = Null
              THEN Throw(cs, "ub")
              ELSE LET r == DoAddToEnd(cs, mine, theirs, ub)
                   IN IF r.exc # "none" THEN r
                      ELSE DiagramDoAddToEndFrom(r.h, c, other, ub, i + 1)

DoAddToEnd(cs, c, other, ub) ==
  IF cs[c].type = "leaf"
    THEN IF cs[other].type = "destroyed" THEN Throw(cs, "ub")
         ELSE LeafDoAddToEnd(cs, c, other, ub)
  ELSE IF cs[c].type = "diagram" THEN DiagramDoAddToEnd(cs, c, other, ub)
  ELSE Throw(cs, "ub")

\* EventCollection::AddToEnd.
AddToEnd(cs, c, other, ub) == DoAddToEnd(cs, c, other, ub)

\* SetFrom that does not clear.
SetFrom_NoClear(cs, c, other, ub) == AddToEnd(cs, c, other, ub)

\* SetFrom that returns at once when other is this.
SetFrom_SelfKept(cs, c, other, ub) ==
  IF other = c THEN Ok(cs)
  ELSE LET r == Clear(cs, c)
       IN IF r.exc # "none" THEN r ELSE AddToEnd(r.h, c, other, ub)

\* EventCollection::SetFrom: Clear(), then AddToEnd(other).
SetFrom(cs, c, other, ub) ==
  LET r == Clear(cs, c)
  IN IF r.exc # "none" THEN r ELSE AddToEnd(r.h, c, other, ub)

-----------------------------------------------------------------------------
(* DiagramEventCollection: populating the slots. *)

\* The collections a diagram collection owns, directly or through the
\* diagram collections it owns.
RECURSIVE OwnedBy(_, _)
OwnedBy(cs, d) ==
  LET direct == { cs[d].owned_subevent_collection_[i] :
                    i \in 1..Len(cs[d].owned_subevent_collection_) } \ {Null}
  IN direct \cup UNION { OwnedBy(cs, x) : x \in direct }

\* ~unique_ptr: the collection and everything it owns are destroyed.
DestroyAll(cs, gone) ==
  [x \in 1..Len(cs) |-> IF x \in gone THEN Destroyed(cs[x].kind) ELSE cs[x]]

\* set_and_own_subevent_collection taking a null pointer like any other.
set_and_own_subevent_collection_NullTaken(cs, d, index, subevent_collection) ==
  IF ~(index >= 0 /\ index < num_subsystems(cs, d)) THEN Throw(cs, "abort")
  ELSE Ok([cs EXCEPT
             ![d].owned_subevent_collection_[index + 1] = subevent_collection,
             ![d].subevent_collection_[index + 1] = subevent_collection])

\* set_and_own_subevent_collection(index, std::move(subevent_collection)):
\* index counts from 0. The unique_ptr assignment destroys what the slot
\* owned before.
set_and_own_subevent_collection(cs, d, index, subevent_collection) ==
  IF subevent_collection = Null THEN Throw(cs, "abort")
  ELSE IF ~(index >= 0 /\ index < num_subsystems(cs, d)) THEN Throw(cs, "abort")
  ELSE LET old == cs[d].owned_subevent_collection_[index + 1]
           kept == IF old = Null \/ old = subevent_collection
                     THEN cs
                     ELSE DestroyAll(cs, {old} \cup OwnedBy(cs, old))
           owned == [kept EXCEPT
                       ![d].owned_subevent_collection_[index + 1] =
                          subevent_collection]
       IN Ok([owned EXCEPT
                ![d].subevent_collection_[index + 1] =
                   owned[d].owned_subevent_collection_[index + 1]])

\* set_subevent_collection(index, subevent_collection): the slot points to
\* a collection owned elsewhere.
set_subevent_collection(cs, d, index, subevent_collection) ==
  IF subevent_collection = Null THEN Throw(cs, "abort")
  ELSE IF ~(index >= 0 /\ index < num_subsystems(cs, d)) THEN Throw(cs, "abort")
  ELSE Ok([cs EXCEPT ![d].subevent_collection_[index + 1] = subevent_collection])

\* get_subevent_collection / get_mutable_subevent_collection of a diagram
\* collection, for an index the DRAKE_DEMAND lets through.
get_subevent_collection(cs, d, index) == cs[d].subevent_collection_[index + 1]

-----------------------------------------------------------------------------
(* CompositeEventCollection: one collection per kind.  cs is the heap of   *)
(* collections, bs the heap of bundles.                                    *)

get_publish_events(bs, b) == bs[b].publish_events_
get_discrete_update_events(bs, b) == bs[b].discrete_update_events_
get_unrestricted_update_events(bs, b) == bs[b].unrestricted_update_events_

\* The accessor of the kind.
get_events_of_kind(bs, b, kind) ==
  CASE kind = "publish" -> get_publish_events(bs, b)
    [] kind = "discrete_update" -> get_discrete_update_events(bs, b)
    [] kind = "unrestricted_update" -> get_unrestricted_update_events(bs, b)

\* CompositeEventCollection::Clear: the three collections in turn.
CompositeClear(cs, bs, b) ==
  LET r1 == Clear(cs, bs[b].publish_events_)
  IN IF r1.exc # "none" THEN r1
     ELSE LET r2 == Clear(r1.h, bs[b].discrete_update_events_)
          IN IF r2.exc # "none" THEN r2
             ELSE Clear(r2.h, bs[b].unrestricted_update_events_)

HasPublishEvents(cs, bs, b) == HasEvents(cs, bs[b].publish_events_)
HasDiscreteUpdateEvents(cs, bs, b) == HasEvents(cs, bs[b].discrete_update_events_)
HasUnrestrictedUpdateEvents(cs, bs, b) ==
  HasEvents(cs, bs[b].unrestricted_update_events_)

\* CompositeEventCollection::HasEvents: a || b || c, left to right.
CompositeHasEvents(cs, bs, b) ==
  LET r1 == HasEvents(cs, bs[b].publish_events_)
  IN IF r1.exc # "none" \/ r1.ret THEN r1
     ELSE LET r2 == HasEvents(cs, bs[b].discrete_update_events_)
          IN IF r2.exc # "none" \/ r2.ret THEN r2
             ELSE HasEvents(cs, bs[b].unrestricted_update_events_)

\* add_publish_event filing the event with the discrete update events.
add_publish_event_Misfiled(cs, bs, b, event) ==
  IF event.addr = Null THEN Throw(cs, "abort")
  ELSE IF cs[get_publish_events(bs, b)].type # "leaf" THEN Throw(cs, "bad_cast")
  ELSE LeafAddEvent(cs, get_discrete_update_events(bs, b), event)

\* add_publish_event: DRAKE_DEMAND(event != nullptr), dynamic_cast of the
\* publish collection to a leaf collection (std::bad_cast), add_event.
add_publish_event(cs, bs, b, event) ==
  IF event.addr = Null THEN Throw(cs, "abort")
  ELSE IF cs[get_publish_events(bs, b)].type # "leaf" THEN Throw(cs, "bad_cast")
  ELSE LeafAddEvent(cs, get_publish_events(bs, b), event)

\* add_discrete_update_event with a static cast: no check of the type.
add_discrete_update_event_Unchecked(cs, bs, b, event) ==
  IF event.addr = Null THEN Throw(cs, "abort")
  ELSE LeafAddEvent(cs, get_discrete_update_events(bs, b), event)

add_discrete_update_event(cs, bs, b, event) ==
  IF event.addr = Null THEN Throw(cs, "abort")
  ELSE IF cs[get_discrete_update_events(bs, b)].type # "leaf"
    THEN Throw(cs, "bad_cast")
  ELSE LeafAddEvent(cs, get_discrete_update_events(bs, b), event)

add_unrestricted_update_event(cs, bs, b, event) ==
  IF event.addr = Null THEN Throw(cs, "abort")
  ELSE IF cs[get_unrestricted_update_events(bs, b)].type # "leaf"
    THEN Throw(cs, "bad_cast")
  ELSE LeafAddEvent(cs, get_unrestricted_update_events(bs, b), event)

\* AddToEnd that stops after the discrete update events.
CompositeAddToEnd_TwoKinds(cs, bs, b, other, ub) ==
  LET r1 == AddToEnd(cs, bs[b].publish_events_, get_publish_events(bs, other), ub)
  IN IF r1.exc # "none" THEN r1
     ELSE AddToEnd(r1.h, bs[b].discrete_update_events_,
                   get_discrete_update_events(bs, other), ub)

\* CompositeEventCollection::AddToEnd: AddToEnd kind by kind, publish first.
CompositeAddToEnd(cs, bs, b, other, ub) ==
  LET r1 == AddToEnd(cs, bs[b].publish_events_, get_publish_events(bs, other), ub)
  IN IF r1.exc # "none" THEN r1
     ELSE LET r2 == AddToEnd(r1.h, bs[b].discrete_update_events_,
                             get_discrete_update_events(bs, other), ub)
          IN IF r2.exc # "none" THEN r2
             ELSE AddToEnd(r2.h, bs[b].unrestricted_update_events_,
                           get_unrestricted_update_events(bs, other), ub)

\* CompositeEventCollection::SetFrom: SetFrom kind by kind, publish first.
CompositeSetFrom(cs, bs, b, other, ub) ==
  LET r1 == SetFrom(cs, bs[b].publish_events_, get_publish_events(bs, other), ub)
  IN IF r1.exc # "none" THEN r1
     ELSE LET r2 == SetFrom(r1.h, bs[b].discrete_update_events_,
                            get_discrete_update_events(bs, other), ub)
          IN IF r2.exc # "none" THEN r2
             ELSE SetFrom(r2.h, bs[b].unrestricted_update_events_,
                          get_unrestricted_update_events(bs, other), ub)

\* LeafCompositeEventCollection(): three new leaf collections.  H is the
\* pair of heaps [colls, bundles].
LeafCompositeEventCollection(H) ==
  LET p == NewId(H.colls)
  IN [colls |-> H.colls \o << LeafEventCollection("publish"),
                              LeafEventCollection("discrete_update"),
                              LeafEventCollection("unrestricted_update") >>,
      bundles |-> Append(H.bundles,
                    [type |-> "leaf",
                     publish_events_ |-> p,
                     discrete_update_events_ |-> p + 1,
                     unrestricted_update_events_ |-> p + 2,
                     owned_subevent_collection_ |-> <<>>])]

\* A constructor whose loop body never runs.
PointAtSubevents_Skipped(cs, bs, b, i) == cs

\* The loop of DiagramCompositeEventCollection's constructor: slot i of
\* each kind's diagram collection is pointed at that kind's collection of
\* owned child bundle i.
RECURSIVE PointAtSubevents(_, _, _, _)
PointAtSubevents(cs, bs, b, i) ==
  IF i >= Len(bs[b].owned_subevent_collection_)
    THEN cs
    ELSE LET sub == bs[b].owned_subevent_collection_[i + 1]
             c1 == set_subevent_collection(
                     cs, get_publish_events(bs, b), i,
                     get_publish_events(bs, sub)).h
             c2 == set_subevent_collection(
                     c1, get_discrete_update_events(bs, b), i,
                     get_discrete_update_events(bs, sub)).h
             c3 == set_subevent_collection(
                     c2, get_unrestricted_update_events(bs, b), i,
                     get_unrestricted_update_events(bs, sub)).h
         IN PointAtSubevents(c3, bs, b, i + 1)

\* DiagramCompositeEventCollection(subevents): three diagram collections of
\* subevents.size() slots, the child bundles owned, then the loop.
DiagramCompositeEventCollection(H, subevents) ==
  LET p == NewId(H.colls)
      n == Len(subevents)
      cs == H.colls \o << DiagramEventCollection("publish", n),
                          DiagramEventCollection("discrete_update", n),
                          DiagramEventCollection("unrestricted_update", n) >>
      bs == Append(H.bundles,
              [type |-> "diagram",
               publish_events_ |-> p,
               discrete_update_events_ |-> p + 1,
               unrestricted_update_events_ |-> p + 2,
               owned_subevent_collection_ |-> subevents])
  IN [colls |-> PointAtSubevents(cs, bs, Len(bs), 0), bundles |-> bs]

\* DiagramCompositeEventCollection::num_subsystems.
composite_num_subsystems(bs, b) == Len(bs[b].owned_subevent_collection_)

\* get_subevent_collection / get_mutable_subevent_collection of a diagram
\* bundle, for an index the DRAKE_DEMAND lets through.
get_subevent_bundle(bs, b, index) == bs[b].owned_subevent_collection_[index + 1]

-----------------------------------------------------------------------------
(* Scenarios: heaps a caller builds with the constructors above. *)

\* A diagram collection of n slots, each owning a new leaf collection.
RECURSIVE OwnNewLeaves(_, _, _)
OwnNewLeaves(cs, d, i) ==
  IF i >= num_subsystems(cs, d)
    THEN cs
    ELSE LET leaf == NewId(cs)
             withLeaf == Alloc(cs, LeafEventCollection(cs[d].kind))
         IN OwnNewLeaves(
              set_and_own_subevent_collection(withLeaf, d, i, leaf).h, d, i + 1)

WithLeaf(cs, kind) == Alloc(cs, LeafEventCollection(kind))

WithDiagramOfLeaves(cs, kind, n) ==
  OwnNewLeaves(Alloc(cs, DiagramEventCollection(kind, n)), NewId(cs), 0)

\* A diagram collection of two slots: a leaf, and a diagram of one leaf.
WithNestedDiagram(cs, kind) ==
  LET d == NewId(cs)
      c1 == Alloc(cs, DiagramEventCollection(kind, 2))
      leaf == NewId(c1)
      c2 == set_and_own_subevent_collection(
              Alloc(c1, LeafEventCollection(kind)), d, 0, leaf).h
      inner == NewId(c2)
      c3 == WithDiagramOfLeaves(c2, kind, 1)
  IN set_and_own_subevent_collection(c3, d, 1, inner).h

\* Two leaf collections, two diagram collections of two leaves each and
\* one of no slot.
FlatCollections ==
  WithDiagramOfLeaves(
    WithDiagramOfLeaves(
      WithDiagramOfLeaves(
        WithLeaf(WithLeaf(<<>>, "publish"), "publish"),
        "publish", 2),
      "publish", 2),
    "publish", 0)

\* Two nested diagram collections of the same shape, and a flat one of the
\* same number of slots.
NestedCollections ==
  WithDiagramOfLeaves(
    WithNestedDiagram(WithNestedDiagram(<<>>, "publish"), "publish"),
    "publish", 2)

CollScenarios ==
  { [colls |-> FlatCollections, bundles |-> <<>>],
    [colls |-> NestedCollections, bundles |-> <<>>] }

NoHeap == [colls |-> <<>>, bundles |-> <<>>]

\* A diagram bundle over n new leaf bundles.
RECURSIVE WithLeafBundles(_, _)
WithLeafBundles(H, n) ==
  IF n = 0 THEN H ELSE WithLeafBundles(LeafCompositeEventCollection(H), n - 1)

WithDiagramBundleOfLeaves(H, n) ==
  LET first == Len(H.bundles) + 1
  IN DiagramCompositeEventCollection(
       WithLeafBundles(H, n), [i \in 1..n |-> first + i - 1])

\* A diagram bundle over one diagram bundle over one leaf bundle.
WithNestedBundle(H) ==
  LET inner == WithDiagramBundleOfLeaves(H, 1)
  IN DiagramCompositeEventCollection(inner, << Len(inner.bundles) >>)

\* Two diagram bundles over two leaf bundles each.
FlatBundles ==
  WithDiagramBundleOfLeaves(WithDiagramBundleOfLeaves(NoHeap, 2), 2)

\* Two nested diagram bundles of the same shape, and a diagram bundle over
\* no bundle.
NestedBundles ==
  WithDiagramBundleOfLeaves(WithNestedBundle(WithNestedBundle(NoHeap)), 0)

BundleScenarios == { FlatBundles, NestedBundles }

-----------------------------------------------------------------------------
(* The caller. *)

\* A call: the operation, the object it is made on, its operand, event and
\* index or kind arguments (those it has), and how it ended.
Call(op, this, other, event, arg) ==
  [op |-> op, this |-> this, other |-> other, event |-> event,
   arg |-> arg, exc |-> "none"]

Idle == Call("idle", Null, Null, NullEvent, "")

BundleIds == 1..Len(bundles)

CollIds == 1..Len(colls)

\* Collections that exist: the caller has no business with a destroyed one.
LiveColls == { c \in CollIds : colls[c].type # "destroyed" }

\* Event addresses only tell events apart: between calls they are renumbered
\* in heap order (collection by collection, first event first).
RECURSIVE AddrRankFrom(_, _, _, _)
AddrRankFrom(cs, p, c, offset) ==
  IF c > Len(cs) THEN offset + p
  ELSE IF \E i \in 1..Len(cs[c].owned_events_) : cs[c].owned_events_[i].addr = p
    THEN offset + (CHOOSE i \in 1..Len(cs[c].owned_events_) :
                     cs[c].owned_events_[i].addr = p)
    ELSE AddrRankFrom(cs, p, c + 1, offset + Len(cs[c].owned_events_))

\* The new number of address p: its event's place on the heap cs, or a
\* number past every event's when p points to no live event.
Renumbered(cs, p) == AddrRankFrom(cs, p, 1, 0)

RECURSIVE NormalizeFrom(_, _, _, _)
NormalizeFrom(cs, done, c, offset) ==
  IF c > Len(cs) THEN done
  ELSE IF /\ Len(cs[c].events_) = Len(cs[c].owned_events_)
          /\ \A i \in 1..Len(cs[c].events_) :
               /\ cs[c].owned_events_[i].addr = offset + i
               /\ cs[c].events_[i] = offset + i
    THEN NormalizeFrom(cs, done, c + 1, offset + Len(cs[c].owned_events_))
    ELSE NormalizeFrom(
           cs,
           [done EXCEPT
              ![c].owned_events_ =
                 [i \in 1..Len(@) |-> [@[i] EXCEPT !.addr = offset + i]],
              ![c].events_ =
                 [i \in 1..Len(@) |->
                    IF i <= Len(cs[c].owned_events_)
                         /\ cs[c].owned_events_[i].addr = @[i]
                      THEN offset + i
                      ELSE Renumbered(cs, @[i])]],
           c + 1, offset + Len(cs[c].owned_events_))

Normalize(cs) == NormalizeFrom(cs, cs, 1, 0)

\* The outcomes of a call that may meet undefined behaviour: what it does
\* when that crashes the process and, where it met some, what it does when
\* the run goes on.
Outcomes(crashing, running) ==
  IF crashing.exc = "ub" THEN {crashing, running} ELSE {crashing}

InitOf(scenarios) ==
  /\ \E s \in scenarios : colls = s.colls /\ bundles = s.bundles
  /\ pre = colls
  /\ last = Idle

Init == InitOf(CollScenarios)

InitBundle == InitOf(BundleScenarios)

\* The outcome r of a call becomes the state.
Returns(r, call) ==
  /\ last.op = "idle"
  /\ pre' = colls
  /\ colls' = r.h
  /\ last' = [call EXCEPT !.exc = r.exc]
  /\ UNCHANGED bundles

\* The caller goes on after a call that returned or threw; after an abort
\* or a crash there is no caller left.
Resume ==
  /\ last.op # "idle"
  /\ last.exc \notin Fatal
  /\ NumEvents(colls) <= MaxEvents
  /\ colls' = Normalize(colls)
  /\ pre' = colls'
  /\ last' = Idle
  /\ UNCHANGED bundles

\* The std::unique_ptr<EventType> a caller passes, for the event type of
\* the kind: a new event, or a null pointer.
EventArgs(kind) ==
  { MakeEvent(colls, v) : v \in EventInputs(kind) } \cup {NullEvent}

CallAddEvent ==
  /\ last.op = "idle"
  /\ \E k \in Kinds : \E event \in EventArgs(k) :
       \E c \in { x \in LiveColls : colls[x].kind = k } :
      Returns(add_event(colls, c, event),
              Call("add_event", c, Null, event, ""))

CallClear ==
  /\ last.op = "idle"
  /\ \E c \in LiveColls :
    Returns(Clear(colls, c), Call("Clear", c, Null, NullEvent, ""))

CallAddToEnd ==
  /\ last.op = "idle"
  /\ \E c \in LiveColls : \E other \in LiveColls :
    /\ colls[c].kind = colls[other].kind
    /\ \E r \in Outcomes(AddToEnd(colls, c, other, "crash"),
                        AddToEnd(colls, c, other, "runs")) :
         Returns(r, Call("AddToEnd", c, other, NullEvent, ""))

CallSetFrom ==
  /\ last.op = "idle"
  /\ \E c \in LiveColls : \E other \in LiveColls :
    /\ colls[c].kind = colls[other].kind
    /\ \E r \in Outcomes(SetFrom(colls, c, other, "crash"),
                        SetFrom(colls, c, other, "runs")) :
         Returns(r, Call("SetFrom", c, other, NullEvent, ""))

CallAddEventOfKind ==
  /\ last.op = "idle"
  /\ \E b \in BundleIds :
       \/ \E event \in EventArgs("publish") :
            Returns(add_publish_event(colls, bundles, b, event),
                    Call("add_publish_event", b, Null, event, "publish"))
       \/ \E event \in EventArgs("discrete_update") :
            Returns(add_discrete_update_event(colls, bundles, b, event),
                    Call("add_discrete_update_event", b, Null, event,
                         "discrete_update"))
       \/ \E event \in EventArgs("unrestricted_update") :
            Returns(add_unrestricted_update_event(colls, bundles, b, event),
                    Call("add_unrestricted_update_event", b, Null, event,
                         "unrestricted_update"))

CallCompositeClear ==
  /\ last.op = "idle"
  /\ \E b \in BundleIds :
       Returns(CompositeClear(colls, bundles, b),
               Call("CompositeClear", b, Null, NullEvent, ""))

CallCompositeAddToEnd ==
  /\ last.op = "idle"
  /\ \E b \in BundleIds : \E other \in BundleIds :
       \E r \in Outcomes(CompositeAddToEnd(colls, bundles, b, other, "crash"),
                        CompositeAddToEnd(colls, bundles, b, other, "runs")) :
         Returns(r, Call("CompositeAddToEnd", b, other, NullEvent, ""))

CallCompositeSetFrom ==
  /\ last.op = "idle"
  /\ \E b \in BundleIds : \E other \in BundleIds :
       \E r \in Outcomes(CompositeSetFrom(colls, bundles, b, other, "crash"),
                        CompositeSetFrom(colls, bundles, b, other, "runs")) :
         Returns(r, Call("CompositeSetFrom", b, other, NullEvent, ""))

\* AddToEnd and SetFrom called on the per-kind collection that an accessor
\* of a bundle returns, with that of a bundle as the operand.
CallViewAddToEnd ==
  /\ last.op = "idle"
  /\ \E b \in BundleIds : \E o \in BundleIds : \E k \in Kinds :
       LET c == get_events_of_kind(bundles, b, k)
           other == get_events_of_kind(bundles, o, k)
       IN \E r \in Outcomes(AddToEnd(colls, c, other, "crash"),
                        AddToEnd(colls, c, other, "runs")) :
            Returns(r, Call("AddToEnd", c, other, NullEvent, ""))

CallViewSetFrom ==
  /\ last.op = "idle"
  /\ \E b \in BundleIds : \E o \in BundleIds : \E k \in Kinds :
       LET c == get_events_of_kind(bundles, b, k)
           other == get_events_of_kind(bundles, o, k)
       IN \E r \in Outcomes(SetFrom(colls, c, other, "crash"),
                        SetFrom(colls, c, other, "runs")) :
            Returns(r, Call("SetFrom", c, other, NullEvent, ""))

Next ==
  \/ CallAddEvent
  \/ CallClear
  \/ CallAddToEnd
  \/ CallSetFrom
  \/ Resume

Spec == Init /\ [][Next]_vars

NextBundle ==
  \/ CallAddEventOfKind
  \/ CallCompositeClear
  \/ CallCompositeAddToEnd
  \/ CallCompositeSetFrom
  \/ CallAddEvent
  \/ CallClear
  \/ CallViewAddToEnd
  \/ CallViewSetFrom
  \/ Resume

SpecBundle == InitBundle /\ [][NextBundle]_vars

-----------------------------------------------------------------------------
(* What a caller can tell of a heap. *)

\* An event as a caller tells it from others: its trigger type and callback.
Value(e) == [trigger_type |-> e.trigger_type, callback |-> e.callback]

\* The sequence a leaf collection holds, as get_events() shows it.
Seen(cs, c) ==
  [i \in 1..Len(get_events(cs, c)) |-> Value(Deref(cs, get_events(cs, c)[i]))]

\* The leaf collections under c, c itself if it is one.
RECURSIVE LeavesUnder(_, _)
LeavesUnder(cs, c) ==
  IF cs[c].type = "leaf" THEN {c}
  ELSE UNION { LeavesUnder(cs, cs[c].subevent_collection_[i]) :
                 i \in { j \in 1..Len(cs[c].subevent_collection_) :
                           cs[c].subevent_collection_[j] # Null } }

\* a and b are trees of the same shape, every slot populated.
RECURSIVE SameShape(_, _, _)
SameShape(cs, a, b) ==
  \/ cs[a].type = "leaf" /\ cs[b].type = "leaf"
  \/ /\ cs[a].type = "diagram" /\ cs[b].type = "diagram"
     /\ num_subsystems(cs, a) = num_subsystems(cs, b)
     /\ \A i \in 1..num_subsystems(cs, a) :
          /\ cs[a].subevent_collection_[i] # Null
          /\ cs[b].subevent_collection_[i] # Null
          /\ SameShape(cs, cs[a].subevent_collection_[i],
                       cs[b].subevent_collection_[i])

\* The pairs (leaf of a, leaf of b) at the same place of two trees of the
\* same shape.
RECURSIVE LeafPairs(_, _, _)
LeafPairs(cs, a, b) ==
  IF cs[a].type = "leaf" THEN { <<a, b>> }
  ELSE UNION { LeafPairs(cs, cs[a].subevent_collection_[i],
                         cs[b].subevent_collection_[i]) :
                 i \in 1..num_subsystems(cs, a) }

\* No leaf collection is under both a and b.
Apart(cs, a, b) == LeavesUnder(cs, a) \cap LeavesUnder(cs, b) = {}

\* The leaf bundles under b, b itself if it is one.
RECURSIVE LeafBundlesUnder(_, _)
LeafBundlesUnder(bs, b) ==
  IF bs[b].type = "leaf" THEN {b}
  ELSE UNION { LeafBundlesUnder(bs, get_subevent_bundle(bs, b, i)) :
                 i \in 0..(composite_num_subsystems(bs, b) - 1) }

\* a and b are bundles of the same shape.
RECURSIVE BundleSameShape(_, _, _)
BundleSameShape(bs, a, b) ==
  \/ bs[a].type = "leaf" /\ bs[b].type = "leaf"
  \/ /\ bs[a].type = "diagram" /\ bs[b].type = "diagram"
     /\ composite_num_subsystems(bs, a) = composite_num_subsystems(bs, b)
     /\ \A i \in 0..(composite_num_subsystems(bs, a) - 1) :
          BundleSameShape(bs, get_subevent_bundle(bs, a, i),
                          get_subevent_bundle(bs, b, i))

\* The pairs (leaf bundle of a, leaf bundle of b) at the same place of two
\* bundles of the same shape.
RECURSIVE LeafBundlePairs(_, _, _)
LeafBundlePairs(bs, a, b) ==
  IF bs[a].type = "leaf" THEN { <<a, b>> }
  ELSE UNION { LeafBundlePairs(bs, get_subevent_bundle(bs, a, i),
                               get_subevent_bundle(bs, b, i)) :
                 i \in 0..(composite_num_subsystems(bs, a) - 1) }

\* The sequence of one kind a leaf bundle holds, read through the bundle.
SeenOfKind(cs, bs, b, kind) == Seen(cs, get_events_of_kind(bs, b, kind))

\* The has-events query of the kind.
HasEventsOfKind(cs, bs, b, kind) ==
  CASE kind = "publish" -> HasPublishEvents(cs, bs, b)
    [] kind = "discrete_update" -> HasDiscreteUpdateEvents(cs, bs, b)
    [] kind = "unrestricted_update" -> HasUnrestrictedUpdateEvents(cs, bs, b)

\* The event pointers met when walking collection c down to its leaves, in
\* slot order.
RECURSIVE Traversal(_, _)
Traversal(cs, c) ==
  IF cs[c].type = "leaf" THEN get_events(cs, c)
  ELSE IF cs[c].type = "diagram"
    THEN LET Walk[i \in 0..num_subsystems(cs, c)] ==
               IF i = 0 THEN <<>>
               ELSE IF cs[c].subevent_collection_[i] = Null THEN Walk[i - 1]
               ELSE Walk[i - 1] \o Traversal(cs, cs[c].subevent_collection_[i])
         IN Walk[num_subsystems(cs, c)]
  ELSE <<>>

\* No element of s occurs twice.
NoDuplicates(s) == \A i, j \in 1..Len(s) : s[i] = s[j] => i = j

\* The add_*_event operations of a bundle.
AddOps == {"add_publish_event", "add_discrete_update_event",
           "add_unrestricted_update_event"}

\* The collections under c, c included.
RECURSIVE CollsUnder(_, _)
CollsUnder(cs, c) ==
  IF cs[c].type # "diagram" THEN {c}
  ELSE {c} \cup
       UNION { CollsUnder(cs, cs[c].subevent_collection_[i]) :
                 i \in { j \in 1..Len(cs[c].subevent_collection_) :
                           cs[c].subevent_collection_[j] # Null } }

\* The bundles under b, b included.
RECURSIVE BundlesUnder(_, _)
BundlesUnder(bs, b) ==
  {b} \cup UNION { BundlesUnder(bs, get_subevent_bundle(bs, b, i)) :
                     i \in 0..(composite_num_subsystems(bs, b) - 1) }

\* The call was add_event on a diagram collection.
AddOnDiagramCollection ==
  last.op = "add_event" /\ pre[last.this].type = "diagram"

\* The call was an add_*_event on a diagram bundle.
AddOnDiagramBundle ==
  last.op \in AddOps /\ bundles[last.this].type = "diagram"

\* A value returned without undefined behaviour.
Returned(v) == [ret |-> v, exc |-> "none"]

-----------------------------------------------------------------------------
(* Building: a caller that populates the slots of diagram collections it  *)
(* has constructed, from collections it holds, and uses them meanwhile.   *)

\* A forced event has no callback.
NoCallback == 0

\* A factory returning the new collection with no event in it.
MakeForcedEventCollection_Empty(cs, kind) ==
  Ok(Alloc(cs, LeafEventCollection(kind)))

\* MakeForcedEventCollection(): a new leaf collection, a new event of
\* trigger type kForced and nothing else, added to it.
MakeForcedEventCollection(cs, kind) ==
  LET ret == NewId(cs)
      made == Alloc(cs, LeafEventCollection(kind))
      event == MakeEvent(made, [trigger_type |-> "kForced",
                                callback |-> NoCallback])
  IN LeafAddEvent(made, ret, event)

\* A diagram collection of two slots, nothing in them yet, and two leaf
\* collections.
BuildCollections ==
  WithLeaf(WithLeaf(Alloc(<<>>, DiagramEventCollection("publish", 2)),
                    "publish"), "publish")

InitBuild == InitOf({ [colls |-> BuildCollections, bundles |-> <<>>] })

\* The int index arguments a caller passes: in and out of the range of a
\* diagram collection of two slots.
Indices == -1..2

\* The collections whose std::unique_ptr the caller holds: those alive that
\* no diagram collection owns.
CallerOwned ==
  { c \in LiveColls :
      \A d \in LiveColls :
        \A i \in 1..Len(colls[d].owned_subevent_collection_) :
          colls[d].owned_subevent_collection_[i] # c }

\* The collections that can be put under d without d coming under itself:
\* those that neither reach d through their slots nor own it.
NotOver(d) ==
  { c \in LiveColls :
      d \notin CollsUnder(colls, c) /\ d \notin OwnedBy(colls, c) }

CallSetAndOwn ==
  /\ last.op = "idle"
  /\ \E d \in { x \in LiveColls : colls[x].type = "diagram" } :
       \E index \in Indices :
         \E sub \in ((CallerOwned \cap NotOver(d)) \cup {Null}) :
           Returns(set_and_own_subevent_collection(colls, d, index, sub),
                   Call("set_and_own_subevent_collection", d, sub, NullEvent,
                        index))

CallSetSubevent ==
  /\ last.op = "idle"
  /\ \E d \in { x \in LiveColls : colls[x].type = "diagram" } :
       \E index \in Indices :
         \E sub \in (NotOver(d) \cup {Null}) :
           Returns(set_subevent_collection(colls, d, index, sub),
                   Call("set_subevent_collection", d, sub, NullEvent, index))

\* The factory is called while the heap holds at most this many collections
\* more than the caller constructed.
MaxMade == 1

CallMakeForced ==
  /\ last.op = "idle"
  /\ Len(colls) < Len(BuildCollections) + MaxMade
  /\ Returns(MakeForcedEventCollection(colls, "publish"),
             Call("MakeForcedEventCollection", NewId(colls), Null, NullEvent, ""))

\* While building, the caller goes on making calls while the heap holds at
\* most this many Event objects.
MaxBuildEvents == 1

ResumeBuild == NumEvents(colls) <= MaxBuildEvents /\ Resume

NextBuild ==
  \/ CallSetAndOwn
  \/ CallSetSubevent
  \/ CallMakeForced
  \/ CallAddEvent
  \/ CallClear
  \/ CallAddToEnd
  \/ CallSetFrom
  \/ ResumeBuild

SpecBuild == InitBuild /\ [][NextBuild]_vars

-----------------------------------------------------------------------------
(* Properties. *)

\* C1: AddToEnd(other) on a collection of the same shape as other (two
\* leaves, or two diagram collections with the same number of children,
\* down to the leaves) returns normally when the two are distinct, and when
\* it returns every leaf of this holds what it held before followed by what
\* the leaf of other at the same place held, in other's order.
C1_MergePreservesOrder ==
  (last.op = "AddToEnd" /\ SameShape(pre, last.this, last.other)) =>
    /\ Apart(pre, last.this, last.other) => last.exc = "none"
    /\ last.exc = "none" =>
         \A pr \in LeafPairs(pre, last.this, last.other) :
           Seen(colls, pr[1]) = Seen(pre, pr[1]) \o Seen(pre, pr[2])

\* A nested diagram collection has taken another: a leaf two levels down
\* that held an event has been given two different events after it.
C1_Witness ==
  /\ last.op = "AddToEnd" /\ last.exc = "none"
  /\ pre[last.this].type = "diagram"
  /\ \E i \in 1..num_subsystems(pre, last.this) :
       LET mine == pre[last.this].subevent_collection_[i]
           theirs == pre[last.other].subevent_collection_[i]
       IN /\ pre[mine].type = "diagram"
          /\ \E pr \in LeafPairs(pre, mine, theirs) :
               /\ Len(Seen(pre, pr[1])) = 1
               /\ Len(Seen(pre, pr[2])) = 2
               /\ Seen(pre, pr[2])[1] # Seen(pre, pr[2])[2]
               /\ Len(Seen(colls, pr[1])) = 3

\* C2: AddToEnd(other) between two distinct diagram bundles of the same
\* shape returns normally, and then every leaf bundle under this holds, for
\* each of the three kinds, what it held of that kind followed by what the
\* leaf bundle of other at the same place held of that kind (so a place
\* empty in both stays empty), and the has-events query of each kind answers
\* true exactly when some leaf bundle under this holds an event of the kind.
C2_BundleMergePerKindPerChild ==
  (/\ last.op = "CompositeAddToEnd"
   /\ bundles[last.this].type = "diagram"
   /\ BundleSameShape(bundles, last.this, last.other)
   /\ last.this # last.other) =>
    /\ last.exc = "none"
    /\ \A pr \in LeafBundlePairs(bundles, last.this, last.other) :
         \A k \in Kinds :
           /\ SeenOfKind(colls, bundles, pr[1], k) =
                SeenOfKind(pre, bundles, pr[1], k) \o
                SeenOfKind(pre, bundles, pr[2], k)
           /\ (SeenOfKind(pre, bundles, pr[1], k) = <<>> /\
               SeenOfKind(pre, bundles, pr[2], k) = <<>>) =>
                SeenOfKind(colls, bundles, pr[1], k) = <<>>
    /\ \A k \in Kinds :
         HasEventsOfKind(colls, bundles, last.this, k) =
           Returned(\E lb \in LeafBundlesUnder(bundles, last.this) :
                    SeenOfKind(colls, bundles, lb, k) # <<>>)

\* A diagram bundle holding a publish event in one child has taken a bundle
\* holding an unrestricted update event in another child and a publish event
\* in the first: the first child now has two publish events, the other child
\* one unrestricted update event, and no child a discrete update event.
C2_Witness ==
  /\ last.op = "CompositeAddToEnd" /\ last.exc = "none"
  /\ bundles[last.this].type = "diagram"
  /\ composite_num_subsystems(bundles, last.this) = 2
  /\ LET mine(i) == get_subevent_bundle(bundles, last.this, i)
         theirs(i) == get_subevent_bundle(bundles, last.other, i)
     IN \E i, j \in 0..1 :
          /\ i # j
          /\ bundles[mine(i)].type = "leaf" /\ bundles[mine(j)].type = "leaf"
          /\ Len(SeenOfKind(pre, bundles, mine(i), "publish")) = 1
          /\ Len(SeenOfKind(pre, bundles, theirs(i), "publish")) = 1
          /\ Len(SeenOfKind(pre, bundles, theirs(j), "unrestricted_update")) = 1
          /\ Len(SeenOfKind(colls, bundles, mine(i), "publish")) = 2
          /\ Len(SeenOfKind(colls, bundles, mine(j), "unrestricted_update")) = 1
          /\ ~HasDiscreteUpdateEvents(colls, bundles, last.this).ret

\* C3: in every state, each of the three per-kind collections of a diagram
\* bundle over N child bundles is a diagram collection of exactly N slots,
\* none null, whose slot i is the very collection of that kind of owned
\* child bundle i; walking a per-kind collection meets no event twice; and
\* an event added through a child bundle is then the last event of the
\* parent's slot for that child and kind.
C3_AliasingInvariant ==
  /\ \A b \in BundleIds : bundles[b].type = "diagram" =>
       \A k \in Kinds :
         LET view == get_events_of_kind(bundles, b, k)
         IN /\ colls[view].type = "diagram"
            /\ num_subsystems(colls, view) = composite_num_subsystems(bundles, b)
            /\ \A i \in 0..(composite_num_subsystems(bundles, b) - 1) :
                 /\ get_subevent_collection(colls, view, i) # Null
                 /\ get_subevent_collection(colls, view, i) =
                      get_events_of_kind(bundles,
                                         get_subevent_bundle(bundles, b, i), k)
            /\ NoDuplicates(Traversal(colls, view))
  /\ (last.op \in AddOps /\ last.exc = "none") =>
       \A b \in BundleIds :
         \A i \in 0..(composite_num_subsystems(bundles, b) - 1) :
           get_subevent_bundle(bundles, b, i) = last.this =>
             LET slot == get_subevent_collection(
                           colls, get_events_of_kind(bundles, b, last.arg), i)
             IN Seen(colls, slot) = Append(Seen(pre, slot), Value(last.event))

\* An unrestricted update event has been added through the second child
\* bundle of a diagram bundle whose slot for that child already showed one.
C3_Witness ==
  /\ last.op = "add_unrestricted_update_event" /\ last.exc = "none"
  /\ \E b \in BundleIds :
       /\ composite_num_subsystems(bundles, b) = 2
       /\ get_subevent_bundle(bundles, b, 1) = last.this
       /\ LET slot == get_subevent_collection(
                        colls, get_unrestricted_update_events(bundles, b), 1)
          IN /\ Len(Seen(pre, slot)) = 1
             /\ Len(Seen(colls, slot)) = 2
             /\ Len(Traversal(colls, get_unrestricted_update_events(bundles, b))) = 2

\* C4 as stated: add_event on a diagram collection and add_*_event on a
\* diagram bundle, with an event, always fail with std::logic_error
\* (InvalidOperation) and leave every collection as it was.
C4_AsStated ==
  ((AddOnDiagramCollection \/ AddOnDiagramBundle) /\ last.event.addr # Null) =>
    last.exc = "logic_error" /\ colls = pre

\* C4: add_event on a diagram collection always fails with std::logic_error
\* (InvalidOperation), whatever the event; an add_*_event on a diagram bundle
\* fails with std::bad_cast (TypeMismatch) for an event, and aborts the
\* process for a null pointer; for every kind and every number of children,
\* none included, every collection is left as it was.
C4_StructuralAddFails ==
  /\ AddOnDiagramCollection => last.exc = "logic_error" /\ colls = pre
  /\ AddOnDiagramBundle =>
       /\ last.exc = IF last.event.addr = Null THEN "abort" ELSE "bad_cast"
       /\ colls = pre

\* An unrestricted update event was offered to a diagram bundle of two
\* children, one of them holding an event, and the call threw std::bad_cast.
C4_Witness ==
  /\ AddOnDiagramBundle /\ last.op = "add_unrestricted_update_event"
  /\ last.exc = "bad_cast"
  /\ composite_num_subsystems(bundles, last.this) = 2
  /\ \E lb \in LeafBundlesUnder(bundles, last.this) :
       SeenOfKind(colls, bundles, lb, "unrestricted_update") # <<>>

\* C5: an add_*_event of kind k with an event, on a bundle whose kind-k
\* collection is a leaf collection, returns normally with the event appended
\* at the end of that collection and every other collection as it was; on a
\* bundle whose kind-k collection is not a leaf collection it throws
\* std::bad_cast (TypeMismatch) and every collection is as it was.
C5_AddOfKindRequiresLeaf ==
  (last.op \in AddOps /\ last.event.addr # Null) =>
    LET target == get_events_of_kind(bundles, last.this, last.arg)
    IN IF pre[target].type = "leaf"
         THEN /\ last.exc = "none"
              /\ Seen(colls, target) =
                   Append(Seen(pre, target), Value(last.event))
              /\ \A c \in CollIds \ {target} : colls[c] = pre[c]
         ELSE last.exc = "bad_cast" /\ colls = pre

\* A publish event was added to a leaf bundle that held a different publish
\* event, and is now the second of two.
C5_Witness ==
  /\ last.op = "add_publish_event" /\ last.exc = "none"
  /\ bundles[last.this].type = "leaf"
  /\ LET target == get_publish_events(bundles, last.this)
     IN /\ Len(Seen(pre, target)) = 1
        /\ Seen(pre, target)[1] # Value(last.event)
        /\ Seen(colls, target)[2] = Value(last.event)

\* C6: Clear() on a collection or on a bundle returns normally, and then
\* HasEvents() is false for the node and everything under it: every
\* collection under a cleared collection; every bundle under a cleared
\* bundle, each of its three kinds, and every collection under its three
\* per-kind collections.
C6_ClearIsRecursive ==
  /\ last.op = "Clear" =>
       /\ last.exc = "none"
       /\ \A c \in CollsUnder(colls, last.this) :
            HasEvents(colls, c) = Returned(FALSE)
  /\ last.op = "CompositeClear" =>
       /\ last.exc = "none"
       /\ \A b \in BundlesUnder(bundles, last.this) :
            /\ CompositeHasEvents(colls, bundles, b) = Returned(FALSE)
            /\ \A k \in Kinds :
                 /\ HasEventsOfKind(colls, bundles, b, k) = Returned(FALSE)
                 /\ \A c \in CollsUnder(colls, get_events_of_kind(bundles, b, k)) :
                      HasEvents(colls, c) = Returned(FALSE)

\* A nested diagram bundle was cleared that held events of two kinds, one of
\* them in a leaf bundle two levels down.
C6_Witness ==
  /\ last.op = "CompositeClear" /\ last.exc = "none"
  /\ \E i \in 0..(composite_num_subsystems(bundles, last.this) - 1) :
       LET inner == get_subevent_bundle(bundles, last.this, i)
       IN /\ bundles[inner].type = "diagram"
          /\ HasPublishEvents(pre, bundles, inner).ret
  /\ HasUnrestrictedUpdateEvents(pre, bundles, last.this).ret
  /\ ~CompositeHasEvents(colls, bundles, last.this).ret

\* The call was AddToEnd between two diagram collections with different
\* numbers of children.
CountMismatch ==
  /\ last.op = "AddToEnd"
  /\ pre[last.this].type = "diagram" /\ pre[last.other].type = "diagram"
  /\ num_subsystems(pre, last.this) # num_subsystems(pre, last.other)

C8_KindMismatchThrows ==
  (/\ last.op = "AddToEnd"
   /\ {pre[last.this].type, pre[last.other].type} = {"leaf", "diagram"}) =>
    last.exc = "bad_cast" /\ colls = pre

\* A leaf collection holding an event was to take a diagram collection
\* holding an event, and std::bad_cast was thrown.
C8_Witness ==
  /\ last.op = "AddToEnd" /\ last.exc = "bad_cast"
  /\ pre[last.this].type = "leaf" /\ pre[last.other].type = "diagram"
  /\ Seen(pre, last.this) # <<>>
  /\ Traversal(pre, last.other) # <<>>

\* What a caller can tell is the same in heaps g and h: every leaf
\* collection shows the same sequence, every collection answers HasEvents
\* alike.
SameToCaller(g, h) ==
  \A c \in CollIds :
    /\ g[c].type = "leaf" => Seen(g, c) = Seen(h, c)
    /\ HasEvents(g, c) = HasEvents(h, c)

\* C9: SetFrom(other) on a collection, and on a bundle, with another object
\* of the same shape as operand, returns normally and leaves what Clear()
\* followed by AddToEnd(other) leaves: every leaf collection of this shows
\* the sequence the leaf of other at the same place showed and still shows,
\* in events it owns itself, whatever this held before.
C9_SetFromIsClearThenAddToEnd ==
  /\ (/\ last.op = "SetFrom"
      /\ SameShape(pre, last.this, last.other)
      /\ Apart(pre, last.this, last.other)) =>
       LET cleared == Clear(pre, last.this)
           merged == AddToEnd(cleared.h, last.this, last.other, "crash")
       IN /\ last.exc = "none" /\ cleared.exc = "none" /\ merged.exc = "none"
          /\ SameToCaller(colls, merged.h)
          /\ \A pr \in LeafPairs(pre, last.this, last.other) :
               /\ Seen(colls, pr[1]) = Seen(pre, pr[2])
               /\ Seen(colls, pr[2]) = Seen(pre, pr[2])
               /\ \A i \in 1..Len(get_events(colls, pr[1])) :
                    colls[pr[1]].owned_events_[i].addr =
                      get_events(colls, pr[1])[i]
  /\ (/\ last.op = "CompositeSetFrom"
      /\ BundleSameShape(bundles, last.this, last.other)
      /\ last.this # last.other) =>
       LET cleared == CompositeClear(pre, bundles, last.this)
           merged == CompositeAddToEnd(cleared.h, bundles, last.this,
                                       last.other, "crash")
       IN /\ last.exc = "none" /\ cleared.exc = "none" /\ merged.exc = "none"
          /\ SameToCaller(colls, merged.h)
          /\ \A pr \in LeafBundlePairs(bundles, last.this, last.other) :
               \A k \in Kinds :
                 /\ SeenOfKind(colls, bundles, pr[1], k) =
                      SeenOfKind(pre, bundles, pr[2], k)
                 /\ SeenOfKind(colls, bundles, pr[2], k) =
                      SeenOfKind(pre, bundles, pr[2], k)

\* A diagram bundle holding a publish event in its second child was set
\* from a bundle holding a publish event and a discrete update event in its
\* first child: the second child holds nothing any more, the first child
\* what the operand's first child holds.
C9_Witness ==
  /\ last.op = "CompositeSetFrom" /\ last.exc = "none"
  /\ last.this # last.other
  /\ composite_num_subsystems(bundles, last.this) = 2
  /\ composite_num_subsystems(bundles, last.other) = 2
  /\ LET mine(i) == get_subevent_bundle(bundles, last.this, i)
         theirs(i) == get_subevent_bundle(bundles, last.other, i)
     IN /\ bundles[mine(0)].type = "leaf" /\ bundles[theirs(0)].type = "leaf"
        /\ Len(SeenOfKind(pre, bundles, mine(1), "publish")) = 1
        /\ Len(SeenOfKind(pre, bundles, theirs(0), "publish")) = 1
        /\ Len(SeenOfKind(pre, bundles, theirs(0), "discrete_update")) = 1
        /\ SeenOfKind(colls, bundles, mine(1), "publish") = <<>>
        /\ Len(SeenOfKind(colls, bundles, mine(0), "publish")) = 1
        /\ Len(SeenOfKind(colls, bundles, mine(0), "discrete_update")) = 1

\* C10: in every state, a diagram collection made for a bundle of N child
\* bundles (N = 0 included) reports num_subsystems() = N, and a diagram
\* collection's HasEvents() is true exactly when HasEvents() is true of one
\* of its children (never when it has none); a leaf collection's
\* HasEvents() is true exactly when it holds an event; a bundle's
\* HasEvents() is true exactly when one of its three per-kind queries is.
C10_CountsAndHasEvents ==
  /\ \A b \in BundleIds : bundles[b].type = "diagram" =>
       \A k \in Kinds :
         num_subsystems(colls, get_events_of_kind(bundles, b, k)) =
           composite_num_subsystems(bundles, b)
  /\ \A c \in LiveColls :
       /\ colls[c].type = "diagram" =>
            HasEvents(colls, c) =
              Returned(\E i \in 0..(num_subsystems(colls, c) - 1) :
                         HasEvents(colls,
                                   get_subevent_collection(colls, c, i)).ret)
       /\ colls[c].type = "leaf" =>
            HasEvents(colls, c) = Returned(Len(Seen(colls, c)) > 0)
  /\ \A b \in BundleIds :
       CompositeHasEvents(colls, bundles, b) =
         Returned(\E k \in Kinds : HasEventsOfKind(colls, bundles, b, k).ret)

\* A diagram bundle of two children whose only event is an unrestricted
\* update event of the second child: HasEvents() is true of the bundle and
\* of its unrestricted update collection, false of the two other kinds and
\* of the first child.
C10_Witness ==
  \E b \in BundleIds :
    /\ composite_num_subsystems(bundles, b) = 2
    /\ ~CompositeHasEvents(colls, bundles, get_subevent_bundle(bundles, b, 0)).ret
    /\ HasUnrestrictedUpdateEvents(colls, bundles,
                                   get_subevent_bundle(bundles, b, 1)).ret
    /\ ~HasPublishEvents(colls, bundles, b).ret
    /\ ~HasDiscreteUpdateEvents(colls, bundles, b).ret
    /\ HasUnrestrictedUpdateEvents(colls, bundles, b).ret
    /\ CompositeHasEvents(colls, bundles, b).ret
    /\ num_subsystems(colls, get_unrestricted_update_events(bundles, b)) = 2

\* C11: in every state no Event object is owned twice, by two leaf
\* collections or at two places of one; an AddToEnd(other) that returns,
\* other sharing no leaf with this, leaves every leaf under other as it was
\* and gives this only pointers to Event objects that did not exist before
\* the call; and an add_event or Clear changes no leaf collection other
\* than those under the collection it is called on.
C11_SingleOwner ==
  /\ Cardinality(LiveAddrs(colls)) = NumEvents(colls)
  /\ (/\ last.op = "AddToEnd" /\ last.exc = "none"
      /\ Apart(pre, last.this, last.other)) =>
       /\ \A lo \in LeavesUnder(pre, last.other) : colls[lo] = pre[lo]
       /\ \A lt \in LeavesUnder(pre, last.this) :
            \A i \in (Len(get_events(pre, lt)) + 1)..Len(get_events(colls, lt)) :
              get_events(colls, lt)[i] \notin LiveAddrs(pre)
  /\ last.op \in {"add_event", "Clear"} =>
       \A c \in CollIds \ CollsUnder(pre, last.this) : colls[c] = pre[c]

\* A leaf collection holding one event was cleared while another leaf
\* collection shows the same event, in an Event object of its own, and goes
\* on showing it.
C11_Witness ==
  /\ last.op = "Clear" /\ last.exc = "none"
  /\ pre[last.this].type = "leaf"
  /\ Len(Seen(pre, last.this)) = 1
  /\ Seen(colls, last.this) = <<>>
  /\ \E c \in CollIds \ {last.this} :
       /\ colls[c].type = "leaf"
       /\ Seen(colls, c) = Seen(pre, last.this)
       /\ get_events(colls, c)[1] # get_events(pre, last.this)[1]

\* The slot-population operations.
SetOps == {"set_and_own_subevent_collection", "set_subevent_collection"}

\* C12: set_and_own_subevent_collection and set_subevent_collection abort
\* the process, with every collection as it was, when the collection given
\* is null or the index is not in [0, N); otherwise they return with the
\* slot of that index referring to the collection given and every other
\* slot as it was; and in every state, whatever was called before, a
\* diagram collection has the number of slots it was constructed with.
C12_SlotPopulation ==
  /\ last.op \in SetOps =>
       IF last.other = Null \/
          ~(last.arg >= 0 /\ last.arg < num_subsystems(pre, last.this))
         THEN last.exc = "abort" /\ colls = pre
         ELSE /\ last.exc = "none"
              /\ get_subevent_collection(colls, last.this, last.arg) =
                   last.other
              /\ \A j \in 0..(num_subsystems(pre, last.this) - 1) :
                   j # last.arg =>
                     get_subevent_collection(colls, last.this, j) =
                       get_subevent_collection(pre, last.this, j)
  /\ \A d \in 1..Len(BuildCollections) :
       BuildCollections[d].type = "diagram" =>
         /\ colls[d].type = "diagram"
         /\ num_subsystems(colls, d) = num_subsystems(BuildCollections, d)

\* The second slot of a diagram collection, which referred to a leaf
\* collection holding an event, was pointed at another collection, the
\* first slot being populated.
C12_Witness ==
  /\ last.op = "set_subevent_collection" /\ last.exc = "none"
  /\ last.arg = 1
  /\ get_subevent_collection(pre, last.this, 0) # Null
  /\ get_subevent_collection(pre, last.this, 1) # Null
  /\ get_subevent_collection(pre, last.this, 1) # last.other
  /\ Seen(pre, get_subevent_collection(pre, last.this, 1)) # <<>>
  /\ get_subevent_collection(colls, last.this, 1) = last.other

\* The collections the populated slots of diagram collection d refer to.
Populated(cs, d) ==
  { cs[d].subevent_collection_[i] : i \in 1..num_subsystems(cs, d) } \ {Null}

\* d is a diagram collection with a slot never populated and a slot
\* populated, the populated ones with live leaf collections.
PartlyPopulated(cs, d) ==
  /\ cs[d].type = "diagram"
  /\ \E i \in 1..num_subsystems(cs, d) : cs[d].subevent_collection_[i] = Null
  /\ Populated(cs, d) # {}
  /\ \A c \in Populated(cs, d) : cs[c].type = "leaf"

\* C13 as stated: on a diagram collection of which only some slots are
\* populated, Clear() returns normally having emptied exactly the populated
\* children, and HasEvents() returns normally the OR of the populated
\* children's HasEvents().
C13_AsStated ==
  /\ (last.op = "Clear" /\ PartlyPopulated(pre, last.this)) =>
       /\ last.exc = "none"
       /\ \A c \in Populated(pre, last.this) : Seen(colls, c) = <<>>
       /\ \A c \in CollIds \ Populated(pre, last.this) : colls[c] = pre[c]
  /\ \A d \in LiveColls : PartlyPopulated(colls, d) =>
       HasEvents(colls, d) =
         Returned(\E c \in Populated(colls, d) : HasEvents(colls, c).ret)

\* Clear() was called on a diagram collection whose first slot is populated
\* with a leaf collection holding an event and whose second slot is null:
\* the call met undefined behaviour at the null slot, and HasEvents() of the
\* diagram collection, whose populated child is now empty, meets it too.
C13_Witness ==
  /\ last.op = "Clear" /\ last.exc = "ub"
  /\ PartlyPopulated(pre, last.this)
  /\ get_subevent_collection(pre, last.this, 0) # Null
  /\ get_subevent_collection(pre, last.this, 1) = Null
  /\ Seen(pre, get_subevent_collection(pre, last.this, 0)) # <<>>
  /\ HasEvents(colls, last.this).exc = "ub"

-----------------------------------------------------------------------------
(* Merging three operands: bundles of one shape, their per-kind            *)
(* collections and their leaves, filled and merged by a caller.            *)

\* Three diagram bundles over one leaf bundle each.
AssocBundles ==
  WithDiagramBundleOfLeaves(
    WithDiagramBundleOfLeaves(WithDiagramBundleOfLeaves(NoHeap, 1), 1), 1)

\* Three diagram collections of two leaves each.
AssocCollections ==
  WithDiagramOfLeaves(
    WithDiagramOfLeaves(WithDiagramOfLeaves(<<>>, "publish", 2), "publish", 2),
    "publish", 2)

InitAssoc ==
  InitOf({ AssocBundles, [colls |-> AssocCollections, bundles |-> <<>>] })

NextAssoc ==
  \/ CallAddEvent
  \/ CallAddToEnd
  \/ CallCompositeAddToEnd
  \/ Resume

SpecAssoc == InitAssoc /\ [][NextAssoc]_vars

\* No bundle is under both a and b.
BundlesApart(bs, a, b) == BundlesUnder(bs, a) \cap BundlesUnder(bs, b) = {}

\* The third operands of a merge of collection b into collection a: the
\* collections of their kind and shape sharing no leaf with either.
ThirdCollections(cs, a, b) ==
  { c \in 1..Len(cs) :
      /\ cs[c].type # "destroyed" /\ cs[c].kind = cs[a].kind
      /\ SameShape(cs, a, c)
      /\ Apart(cs, a, c) /\ Apart(cs, b, c) }

ThirdBundles(bs, a, b) ==
  { c \in 1..Len(bs) :
      /\ BundleSameShape(bs, a, c)
      /\ BundlesApart(bs, a, c) /\ BundlesApart(bs, b, c) }

\* C14: merge is associative. After B has been merged into A (collections
\* of one shape sharing no leaf, or bundles likewise), merging any third
\* operand C into A leaves every leaf of A with the same sequence of events
\* as merging C into B first and then B into A would have, starting from
\* the heap before the merge; for bundles, in each kind of each leaf bundle.
C14_MergeAssociative ==
  /\ (/\ last.op = "AddToEnd" /\ last.exc = "none"
      /\ SameShape(pre, last.this, last.other)
      /\ Apart(pre, last.this, last.other)) =>
       \A C \in ThirdCollections(pre, last.this, last.other) :
         LET ab_c == AddToEnd(colls, last.this, C, "crash")
             bc == AddToEnd(pre, last.other, C, "crash")
             a_bc == AddToEnd(bc.h, last.this, last.other, "crash")
         IN /\ ab_c.exc = "none" /\ bc.exc = "none" /\ a_bc.exc = "none"
            /\ \A l \in LeavesUnder(pre, last.this) :
                 Seen(ab_c.h, l) = Seen(a_bc.h, l)
  /\ (/\ last.op = "CompositeAddToEnd" /\ last.exc = "none"
      /\ BundleSameShape(bundles, last.this, last.other)
      /\ BundlesApart(bundles, last.this, last.other)) =>
       \A C \in ThirdBundles(bundles, last.this, last.other) :
         LET ab_c == CompositeAddToEnd(colls, bundles, last.this, C, "crash")
             bc == CompositeAddToEnd(pre, bundles, last.other, C, "crash")
             a_bc == CompositeAddToEnd(bc.h, bundles, last.this, last.other,
                                       "crash")
         IN /\ ab_c.exc = "none" /\ bc.exc = "none" /\ a_bc.exc = "none"
            /\ \A lb \in LeafBundlesUnder(bundles, last.this) : \A k \in Kinds :
                 SeenOfKind(ab_c.h, bundles, lb, k)
                   = SeenOfKind(a_bc.h, bundles, lb, k)

\* Diagram bundle B has been merged into diagram bundle A, and a third
\* diagram bundle C holds an event of the same kind at the same leaf
\* position as the event B held, a different one: merged into A it comes
\* after B's, which came after A's own.
C14_Witness ==
  /\ last.op = "CompositeAddToEnd" /\ last.exc = "none"
  /\ bundles[last.this].type = "diagram"
  /\ BundleSameShape(bundles, last.this, last.other)
  /\ BundlesApart(bundles, last.this, last.other)
  /\ \E C \in ThirdBundles(bundles, last.this, last.other) :
       \E i \in 0..(composite_num_subsystems(bundles, last.this) - 1) :
         LET a == get_subevent_bundle(bundles, last.this, i)
             b == get_subevent_bundle(bundles, last.other, i)
             c == get_subevent_bundle(bundles, C, i)
         IN /\ Len(SeenOfKind(pre, bundles, a, "publish")) = 1
            /\ Len(SeenOfKind(pre, bundles, b, "publish")) = 1
            /\ Len(SeenOfKind(pre, bundles, c, "publish")) = 1
            /\ SeenOfKind(pre, bundles, b, "publish")
                 # SeenOfKind(pre, bundles, c, "publish")
            /\ SeenOfKind(
                 CompositeAddToEnd(colls, bundles, last.this, C, "crash").h,
                 bundles, a, "publish")
                 = SeenOfKind(pre, bundles, a, "publish")
                     \o SeenOfKind(pre, bundles, b, "publish")
                     \o SeenOfKind(pre, bundles, c, "publish")

-----------------------------------------------------------------------------
(* Producers: callers running side by side, each adding events to a leaf   *)
(* bundle of its own.  A step of a producer is one of the two push_back    *)
(* calls of LeafEventCollection::add_event; steps of different producers   *)
(* interleave in any order.  When all are done the bundles are handed off: *)
(* wrapped into a diagram bundle, or merged.                               *)

\* What each producer issues, in its order: the bundle operation's kind and
\* the event handed in.
Programs ==
  << << [kind |-> "publish", value |-> [trigger_type |-> "kPeriodic", callback |-> 1]],
        [kind |-> "discrete_update", value |-> [trigger_type |-> "kPeriodic", callback |-> 2]],
        [kind |-> "publish", value |-> [trigger_type |-> "kPerStep", callback |-> 3]] >>,
     << [kind |-> "publish", value |-> [trigger_type |-> "kPerStep", callback |-> 3]],
        [kind |-> "unrestricted_update", value |-> [trigger_type |-> "kPerStep", callback |-> 4]],
        [kind |-> "publish", value |-> [trigger_type |-> "kPeriodic", callback |-> 1]] >>,
     << [kind |-> "discrete_update", value |-> [trigger_type |-> "kPeriodic", callback |-> 2]],
        [kind |-> "unrestricted_update", value |-> [trigger_type |-> "kPerStep", callback |-> 4]] >> >>

\* Producer p fills bundle p.
Producers == 1..Len(Programs)

\* One leaf bundle for each producer.
ProducerBundles == WithLeafBundles(NoHeap, Len(Programs))

InitProducers == InitOf({ProducerBundles})

\* owned_events_.push_back(std::move(event)), the first statement of
\* add_event.
PushOwned(cs, c, event) ==
  [cs EXCEPT ![c].owned_events_ = Append(@, event)]

\* events_.push_back of the address of the first owned event.
PushPointer_Front(cs, c) ==
  [cs EXCEPT ![c].events_ = Append(@, cs[c].owned_events_[1].addr)]

\* events_.push_back(owned_events_.back().get()), the second statement.
PushPointer(cs, c) ==
  [cs EXCEPT ![c].events_ =
     Append(@, cs[c].owned_events_[Len(cs[c].owned_events_)].addr)]

\* The add_*_event of the kind.
add_event_of_kind(cs, bs, b, kind, event) ==
  CASE kind = "publish" -> add_publish_event(cs, bs, b, event)
    [] kind = "discrete_update" -> add_discrete_update_event(cs, bs, b, event)
    [] kind = "unrestricted_update" ->
         add_unrestricted_update_event(cs, bs, b, event)

\* The events producer p has handed to its bundle.
Issued(cs, bs, p) ==
  Len(cs[get_publish_events(bs, p)].owned_events_)
    + Len(cs[get_discrete_update_events(bs, p)].owned_events_)
    + Len(cs[get_unrestricted_update_events(bs, p)].owned_events_)

\* The kinds of the collections of p's bundle that are between the two
\* statements of add_event.
Adding(cs, bs, p) ==
  { k \in Kinds :
      Len(cs[get_events_of_kind(bs, p, k)].owned_events_)
        > Len(cs[get_events_of_kind(bs, p, k)].events_) }

\* Every producer has returned from its last add.
AllDone ==
  \A p \in Producers :
    Issued(colls, bundles, p) = Len(Programs[p]) /\ Adding(colls, bundles, p) = {}

HandOffs == {"DiagramCompositeEventCollection", "CompositeAddToEnd"}

\* A producer enters add_*_event with its next event and runs the first
\* statement.
ProducerOwns ==
  \E p \in Producers :
    /\ Adding(colls, bundles, p) = {}
    /\ Issued(colls, bundles, p) < Len(Programs[p])
    /\ LET step == Programs[p][Issued(colls, bundles, p) + 1]
           event == MakeEvent(colls, step.value)
       IN /\ colls' = PushOwned(colls, get_events_of_kind(bundles, p, step.kind),
                                event)
          /\ last' = Call("owned_events_.push_back", p, Null, event, step.kind)
    /\ pre' = colls
    /\ UNCHANGED bundles

\* A producer runs the second statement and returns.
ProducerPoints ==
  \E p \in Producers : \E k \in Adding(colls, bundles, p) :
    /\ colls' = PushPointer(colls, get_events_of_kind(bundles, p, k))
    /\ last' = Call("events_.push_back", p, Null, NullEvent, k)
    /\ pre' = colls
    /\ UNCHANGED bundles

\* The bundles are wrapped into a diagram bundle, in producer order.
Compose ==
  /\ AllDone /\ last.op \notin HandOffs
  /\ LET H == DiagramCompositeEventCollection(
                [colls |-> colls, bundles |-> bundles],
                [p \in Producers |-> p])
     IN /\ colls' = H.colls
        /\ bundles' = H.bundles
        /\ last' = Call("DiagramCompositeEventCollection", Len(H.bundles), Null,
                        NullEvent, "")
  /\ pre' = colls

\* The bundle of one producer is merged into that of another.
MergeProduced ==
  /\ AllDone /\ last.op \notin HandOffs
  /\ \E p \in Producers : \E q \in Producers \ {p} :
       LET r == CompositeAddToEnd(colls, bundles, p, q, "crash")
       IN /\ colls' = r.h
          /\ last' = [Call("CompositeAddToEnd", p, q, NullEvent, "")
                        EXCEPT !.exc = r.exc]
  /\ pre' = colls
  /\ UNCHANGED bundles

NextProducers == ProducerOwns \/ ProducerPoints \/ Compose \/ MergeProduced

SpecProducers == InitProducers /\ [][NextProducers]_vars

\* The events of the kind among the first n that producer p issues.
RECURSIVE IssuedOfKind(_, _, _)
IssuedOfKind(p, kind, n) ==
  IF n = 0 THEN <<>>
  ELSE IF Programs[p][n].kind = kind
    THEN Append(IssuedOfKind(p, kind, n - 1), Programs[p][n].value)
    ELSE IssuedOfKind(p, kind, n - 1)

\* The adds producer p has returned from.
Completed(cs, bs, p) ==
  Issued(cs, bs, p) - Cardinality(Adding(cs, bs, p))

\* Producer p run alone from its i-th add to its last, each add a whole
\* call of add_*_event.
RECURSIVE RunProducer(_, _, _, _)
RunProducer(cs, bs, p, i) ==
  IF i > Len(Programs[p]) THEN cs
  ELSE RunProducer(
         add_event_of_kind(cs, bs, p, Programs[p][i].kind,
                           MakeEvent(cs, Programs[p][i].value)).h,
         bs, p, i + 1)

\* The producers run one after another, first to last, from producer p on.
RECURSIVE RunInTurn(_, _, _)
RunInTurn(cs, bs, p) ==
  IF p > Len(Programs) THEN cs
  ELSE RunInTurn(RunProducer(cs, bs, p, 1), bs, p + 1)

Sequential == RunInTurn(ProducerBundles.colls, ProducerBundles.bundles, 1)

\* C15: distinct instances may be filled side by side. Whatever the
\* interleaving of the producers' steps, each kind of each producer's
\* bundle shows the events of that kind the producer has added so far, in
\* the order it issued them; and the diagram bundle made of the bundles, or
\* the merge of one into another, is the heap that running the producers
\* one after another and then doing the same gives, event addresses aside.
C15_ProducersIndependent ==
  /\ last.op # "CompositeAddToEnd" =>
       \A p \in Producers : \A k \in Kinds :
         /\ SeenOfKind(colls, bundles, p, k)
              = IssuedOfKind(p, k, Completed(colls, bundles, p))
         /\ AllDone =>
              SeenOfKind(colls, bundles, p, k)
                = IssuedOfKind(p, k, Len(Programs[p]))
  /\ last.op = "DiagramCompositeEventCollection" =>
       LET H == DiagramCompositeEventCollection(
                  [colls |-> Sequential, bundles |-> ProducerBundles.bundles],
                  [p \in Producers |-> p])
       IN /\ bundles = H.bundles
          /\ Normalize(colls) = Normalize(H.colls)
  /\ last.op = "CompositeAddToEnd" =>
       LET r == CompositeAddToEnd(Sequential, bundles, last.this, last.other,
                                  "crash")
       IN /\ last.exc = r.exc
          /\ Normalize(colls) = Normalize(r.h)

\* The bundles have been wrapped into a diagram bundle after a run in which
\* the producers' adds interleaved: the first producer's last event was
\* made after the second producer's first, itself made after the first
\* producer's first, and the diagram bundle shows each in its place.
C15_Witness ==
  /\ last.op = "DiagramCompositeEventCollection"
  /\ LET mine == get_events(colls, get_publish_events(bundles, 1))
         theirs == get_events(colls, get_publish_events(bundles, 2))
     IN /\ Len(mine) = 2 /\ Len(theirs) = 2
        /\ mine[1] < theirs[1] /\ theirs[1] < mine[2]
        /\ Traversal(colls, get_publish_events(bundles, last.this))
             = mine \o theirs

\* The one event of a collection the factory made.
ForcedEvent == [trigger_type |-> "kForced", callback |-> NoCallback]

\* C16: MakeForcedEventCollection returns a new leaf collection, no other
\* collection changed, holding exactly one event, a new one, of trigger
\* type kForced with no callback or data; HasEvents() of it is true, and a
\* Clear() that follows leaves it empty.
C16_ForcedEventCollection ==
  /\ last.op = "MakeForcedEventCollection" =>
       /\ last.exc = "none"
       /\ last.this = Len(pre) + 1 /\ Len(colls) = Len(pre) + 1
       /\ \A c \in 1..Len(pre) : colls[c] = pre[c]
       /\ colls[last.this].type = "leaf"
       /\ Len(colls[last.this].owned_events_) = 1
       /\ colls[last.this].owned_events_[1].addr \notin LiveAddrs(pre)
       /\ Seen(colls, last.this) = << ForcedEvent >>
       /\ HasEvents(colls, last.this) = Returned(TRUE)
       /\ Clear(colls, last.this).exc = "none"
       /\ Seen(Clear(colls, last.this).h, last.this) = <<>>
  /\ (/\ last.op = "Clear" /\ last.this > Len(BuildCollections)
      /\ Seen(pre, last.this) = << ForcedEvent >>) =>
       /\ last.exc = "none"
       /\ Seen(colls, last.this) = <<>>
       /\ colls[last.this].owned_events_ = <<>>
       /\ HasEvents(colls, last.this) = Returned(FALSE)

\* The caller has cleared a collection the factory had made, which held
\* its forced event until then.
C16_Witness ==
  /\ last.op = "Clear" /\ last.exc = "none"
  /\ last.this > Len(BuildCollections)
  /\ Seen(pre, last.this) = << ForcedEvent >>
  /\ HasEvents(pre, last.this) = Returned(TRUE)
  /\ Seen(colls, last.this) = <<>>

\* C17 as stated: a merge into a diagram collection that fails, by a
\* std::bad_cast or by the check of the numbers of children, at whatever
\* child and depth, leaves every collection under this as it was before
\* the call.
C17_AsStated ==
  (/\ last.op = "AddToEnd" /\ last.exc \in {"bad_cast", "abort"}
   /\ pre[last.this].type = "diagram") =>
    \A c \in CollsUnder(pre, last.this) : colls[c] = pre[c]

\* A merge of a diagram of two leaves into a diagram of a leaf and a
\* diagram threw std::bad_cast at the second child, after the first child
\* of this had taken the events of the first child of other: it holds them
\* still.
C17_Witness ==
  /\ last.op = "AddToEnd" /\ last.exc = "bad_cast"
  /\ pre[last.this].type = "diagram" /\ pre[last.other].type = "diagram"
  /\ num_subsystems(pre, last.this) = num_subsystems(pre, last.other)
  /\ LET mine == get_subevent_collection(pre, last.this, 0)
         theirs == get_subevent_collection(pre, last.other, 0)
     IN /\ Seen(pre, theirs) # <<>>
        /\ Seen(colls, mine) = Seen(pre, mine) \o Seen(pre, theirs)

\* Clear() of bundle b, then AddToEnd(other), as two calls.
CompositeClearThenAddToEnd(cs, bs, b, other, ub) ==
  LET r == CompositeClear(cs, bs, b)
  IN IF r.exc # "none" THEN r ELSE CompositeAddToEnd(r.h, bs, b, other, ub)

\* C18 as stated: a bundle SetFrom(other) that fails leaves each leaf of
\* each of the three per-kind collections of this with the events that
\* Clear() followed by the failing AddToEnd(other) leaves it with.
C18_AsStated ==
  (last.op = "CompositeSetFrom" /\ last.exc \in {"bad_cast", "abort"}) =>
    LET r == CompositeClearThenAddToEnd(pre, bundles, last.this, last.other,
                                        "crash")
    IN /\ r.exc = last.exc
       /\ \A k \in Kinds :
            \A c \in LeavesUnder(pre, get_events_of_kind(bundles, last.this, k)) :
              Seen(colls, c) = Seen(r.h, c)

\* SetFrom of a diagram bundle on a leaf bundle holding a publish and a
\* discrete update event threw std::bad_cast: the publish events are gone,
\* the discrete update event is still there.
C18_Witness ==
  /\ last.op = "CompositeSetFrom" /\ last.exc = "bad_cast"
  /\ bundles[last.this].type = "leaf"
  /\ SeenOfKind(pre, bundles, last.this, "publish") # <<>>
  /\ SeenOfKind(colls, bundles, last.this, "publish") = <<>>
  /\ SeenOfKind(pre, bundles, last.this, "discrete_update") # <<>>
  /\ SeenOfKind(colls, bundles, last.this, "discrete_update")
       = SeenOfKind(pre, bundles, last.this, "discrete_update")

\* C19 as stated: x.AddToEnd(x) returns, and each leaf under x then holds
\* the events it held followed by one copy of each, in order.
C19_AsStated ==
  (/\ last.op = "AddToEnd" /\ last.this = last.other
   /\ SameShape(pre, last.this, last.this)) =>
    /\ last.exc = "none"
    /\ \A c \in LeavesUnder(pre, last.this) :
         Seen(colls, c) = Seen(pre, c) \o Seen(pre, c)

\* A diagram collection was merged into itself; the merge of its first
\* leaf, which held an event, into itself met undefined behaviour: the
\* loop runs over the vector that add_event pushes to.
C19_Witness ==
  /\ last.op = "AddToEnd" /\ last.this = last.other
  /\ pre[last.this].type = "diagram"
  /\ SameShape(pre, last.this, last.this)
  /\ \E c \in LeavesUnder(pre, last.this) : Seen(pre, c) # <<>>
  /\ last.exc = "ub"

ViewMatchesOwned(cs, c) ==
  /\ Len(get_events(cs, c)) = Len(cs[c].owned_events_)
  /\ \A i \in 1..Len(get_events(cs, c)) :
       /\ get_events(cs, c)[i] = cs[c].owned_events_[i].addr
       /\ get_events(cs, c)[i] \in LiveAddrs(cs)
       /\ Deref(cs, get_events(cs, c)[i]) = cs[c].owned_events_[i]

\* C21: leaf view consistency. Whatever add_event, Clear, AddToEnd and
\* SetFrom calls were made, while the process runs the view get_events()
\* of every leaf collection is as long as its owned sequence and its i-th
\* entry points to the i-th owned event, never to a destroyed one; and
\* add_event puts the event it is given last in both.
C21_LeafViewConsistent ==
  /\ last.exc # "ub" =>
       \A c \in LiveColls : colls[c].type = "leaf" => ViewMatchesOwned(colls, c)
  /\ (/\ last.op = "add_event" /\ last.exc = "none"
      /\ pre[last.this].type = "leaf") =>
       /\ colls[last.this].owned_events_
            = Append(pre[last.this].owned_events_, last.event)
       /\ get_events(colls, last.this)
            = Append(get_events(pre, last.this), last.event.addr)

\* SetFrom on a leaf collection that held one event, with a leaf holding
\* two others as operand: the event it held is destroyed, and its view
\* shows the two clones it now owns.
C21_Witness ==
  /\ last.op = "SetFrom" /\ last.exc = "none"
  /\ pre[last.this].type = "leaf" /\ last.this # last.other
  /\ Len(get_events(pre, last.this)) = 1
  /\ Len(get_events(colls, last.this)) = 2
  /\ Seen(colls, last.this) = Seen(pre, last.other)
  /\ Seen(pre, last.this)[1] # Seen(colls, last.this)[1]
  /\ ViewMatchesOwned(colls, last.this)

\* The kind an add_*_event operation names.
KindOfAdd(op) ==
  CASE op = "add_publish_event" -> "publish"
    [] op = "add_discrete_update_event" -> "discrete_update"
    [] op = "add_unrestricted_update_event" -> "unrestricted_update"

\* C22: adding an event of one kind touches only that kind at that node.
\* An add_*_event call on a leaf bundle with an event returns normally, the
\* collection of the named kind of that bundle holds what it held followed
\* by the event, and every other collection of the heap (the other two
\* kinds of the bundle, the collections of every other bundle, siblings
\* included) is as it was.
C22_AddTouchesOneKind ==
  (/\ last.op \in AddOps /\ bundles[last.this].type = "leaf"
   /\ last.event.addr # Null) =>
    LET named == get_events_of_kind(bundles, last.this, KindOfAdd(last.op))
    IN /\ last.exc = "none"
       /\ colls[named].owned_events_
            = Append(pre[named].owned_events_, last.event)
       /\ get_events(colls, named)
            = Append(get_events(pre, named), last.event.addr)
       /\ Seen(colls, named) = Append(Seen(pre, named), Value(last.event))
       /\ \A c \in CollIds \ {named} : colls[c] = pre[c]
       /\ \A b \in BundleIds : \A k \in Kinds :
            (bundles[b].type = "leaf" /\ <<b, k>> # <<last.this, KindOfAdd(last.op)>>)
              => SeenOfKind(colls, bundles, b, k) = SeenOfKind(pre, bundles, b, k)

\* A publish event has been added to a leaf bundle that held another
\* publish event and a discrete update event, and whose sibling in the
\* enclosing diagram bundle held an event: the new event comes second
\* among the publish events.
C22_Witness ==
  /\ last.op = "add_publish_event" /\ last.exc = "none"
  /\ bundles[last.this].type = "leaf"
  /\ Len(SeenOfKind(pre, bundles, last.this, "publish")) = 1
  /\ SeenOfKind(pre, bundles, last.this, "publish")[1] # Value(last.event)
  /\ SeenOfKind(colls, bundles, last.this, "publish")[2] = Value(last.event)
  /\ SeenOfKind(colls, bundles, last.this, "discrete_update") # <<>>
  /\ \E d \in BundleIds : \E s \in BundleIds \ {last.this} :
       /\ bundles[d].type = "diagram"
       /\ \E i, j \in 0..(composite_num_subsystems(bundles, d) - 1) :
            /\ get_subevent_bundle(bundles, d, i) = last.this
            /\ get_subevent_bundle(bundles, d, j) = s
       /\ bundles[s].type = "leaf"
       /\ \E k \in Kinds : SeenOfKind(colls, bundles, s, k) # <<>>

====
